---- MODULE Spec2Model ----
(***************************************************************************)
(* The snake core of syllabix/slither (src/src/snake.rs): the five systems *)
(* of SnakePlugin run in a fixed chain once per frame,                     *)
(*   handle_input -> movement -> game_over -> eater -> grow,               *)
(* over the ECS world (entities with Position / SnakeHead / SnakeSegment / *)
(* Food components), the resources SnakeSegments, LastTailPosition and     *)
(* MovementTimer, and the two event queues GameOverEvent and GrowthEvent.  *)
(* Deferred commands of a system are applied at the sync point that        *)
(* follows it in the chain, so they are part of that system's step.        *)
(***************************************************************************)
EXTENDS Integers, Sequences, FiniteSets

VARIABLES
    pc,                 \* the next system of the frame schedule
    pos,                \* Position component of the snake entities: id -> [x, y]
    heads,              \* SnakeHead component: id -> direction
    segs,               \* ids that carry the SnakeSegment component
    food,               \* Food entities: cell -> number of food items on it
    segments,           \* resource SnakeSegments: the chain, a sequence of ids
    last_tail_position, \* resource LastTailPosition: NoPos or a position
    timer,              \* resource MovementTimer.clock
    food_timer,         \* resource FoodTimer.clock
    delta,              \* resource Time: the delta of the current update (ns)
    food_ran,           \* food::spawn has run in the current update
    updates,            \* history: the updates with a non-zero delta so far
    input,              \* resource ButtonInput<KeyCode>: the set of held keys
    game_over_events,   \* unread GameOverEvents of game_over's reader
    growth_events,      \* unread GrowthEvents of grow's reader
    frame,              \* history: what the systems of the current frame did
    tail_reset,         \* history: a reset happened since last_tail_position was written
    walk                \* history: the sum of the steps applied since the head was placed

vars == <<pc, pos, heads, segs, food, segments, last_tail_position, timer,
          food_timer, delta, food_ran, updates, input, game_over_events,
          growth_events, frame, tail_reset, walk>>

\* The state of the food system and of the Time resource.
food_system == <<food_timer, delta, food_ran, updates>>

----------------------------------------------------------------------------
(* Program constants *)

WIDTH == 10
HEIGHT == 10
\* Durations are in nanoseconds, the unit bevy's Timer compares in.
\* Timer::from_seconds takes an f32: 0.150 is stored as 150,000,006 ns.
PeriodNs == 150000006
FoodPeriodNs == 2000000000
TestPeriodNs == 1000000000
\* The longest delta the Time resource of the Update schedule hands out.
MaxDeltaNs == 250000000
StartX == 3
StartY == 3

(* Bounds of the model *)

MaxLen == 4         \* entries of the chains built for the consistency-fault harness
MaxFoodCells == 2   \* cells of the arena food is spawned on, nearest to the start first
MaxUpdates == 24    \* updates with a non-zero delta in one run of the game
MaxMidGameUpdates == 2  \* the same, in a run that starts from the mid-game state
DeltaSteps == 1     \* the deltas tried are the multiples of MaxDeltaNs / DeltaSteps
MaxKeys == 2        \* keys held at once in an input pass of the test harness

----------------------------------------------------------------------------
(* Data *)

Direction == {"Left", "Up", "Right", "Down"}

NoPos == [none |-> TRUE]

Position(px, py) == [x |-> px, y |-> py]

Range(s) == {s[i] : i \in DOMAIN s}

Min(a, b) == IF a <= b THEN a ELSE b

----------------------------------------------------------------------------
(* Direction::opposite *)

opposite(d) ==
    CASE d = "Left"  -> "Right"
      [] d = "Up"    -> "Down"
      [] d = "Right" -> "Left"
      [] d = "Down"  -> "Up"

----------------------------------------------------------------------------
(* Keyboard: the key array of handle_input, in its scan order *)

KeyOrder == <<"ArrowLeft", "ArrowRight", "ArrowDown", "ArrowUp",
              "KeyA", "KeyD", "KeyS", "KeyW">>

KeyCode == Range(KeyOrder)

NoKey == "NoKey"

\* The sets of held keys the test harness tries an input pass with.
KeySets == {ks \in SUBSET KeyCode : Cardinality(ks) <= MaxKeys}

\* The sets of held keys a frame of the running game is tried with: no key,
\* or any one key.
FrameKeySets == {{}} \cup {{k} : k \in KeyCode}

\* .into_iter().find(|key| input.pressed(*key)): the first held key of the array.
FindPressed(held) ==
    IF \E i \in DOMAIN KeyOrder : KeyOrder[i] \in held
    THEN KeyOrder[CHOOSE i \in DOMAIN KeyOrder :
                      /\ KeyOrder[i] \in held
                      /\ \A j \in 1..(i - 1) : KeyOrder[j] \notin held]
    ELSE NoKey

\* let dir = match key { ... _ => head.direction }
KeyDirection(key, current) ==
    CASE key \in {"ArrowLeft", "KeyA"}  -> "Left"
      [] key \in {"ArrowRight", "KeyD"} -> "Right"
      [] key \in {"ArrowDown", "KeyS"}  -> "Down"
      [] key \in {"ArrowUp", "KeyW"}    -> "Up"
      [] OTHER                          -> current

\* A pass that applies the candidate without the opposite-direction test.
NewDirectionUnchecked(current, held) ==
    LET key == FindPressed(held) IN
    IF key = NoKey THEN current ELSE KeyDirection(key, current)

\* A pass that goes on to the next held key when a candidate is rejected.
NewDirectionFallThrough(current, held) ==
    LET ok == {i \in DOMAIN KeyOrder :
                  /\ KeyOrder[i] \in held
                  /\ KeyDirection(KeyOrder[i], current) # opposite(current)}
    IN  IF ok = {} THEN current
        ELSE KeyDirection(KeyOrder[CHOOSE i \in ok : \A j \in ok : i <= j], current)

\* The body of handle_input's loop for one head: its direction after the pass.
NewDirection(current, held) ==
    LET key == FindPressed(held) IN
    IF key = NoKey
    THEN current
    ELSE LET dir == KeyDirection(key, current) IN
         IF dir # opposite(current) THEN dir ELSE current

\* handle_input: every head's direction is updated from the held keys.
handle_input(held) ==
    heads' = [h \in DOMAIN heads |-> NewDirection(heads[h], held)]

----------------------------------------------------------------------------
(* MovementTimer and FoodTimer: repeating bevy Timers *)

\* Timer::from_seconds(secs, TimerMode::Repeating), secs given in ns.
Timer(duration) ==
    [duration |-> duration, elapsed |-> 0, finished |-> FALSE,
     times_finished_this_tick |-> 0]

\* Timer::tick in TimerMode::Repeating: the elapsed time grows by dt; when it
\* reaches the duration the timer is finished for this tick, counts the whole
\* periods that went by, (elapsed + dt) / duration, and keeps the remainder,
\* (elapsed + dt) % duration. Both are computed from the time beyond the
\* first period, over = elapsed + dt - duration, so that no value leaves
\* the 32-bit range the 2 s food clock comes close to.
tick(t, dt) ==
    IF dt >= t.duration - t.elapsed
    THEN LET over == dt - (t.duration - t.elapsed) IN
         [t EXCEPT !.elapsed = over % t.duration,
                   !.finished = TRUE,
                   !.times_finished_this_tick = 1 + (over \div t.duration)]
    ELSE [t EXCEPT !.elapsed = t.elapsed + dt,
                   !.finished = FALSE,
                   !.times_finished_this_tick = 0]

\* timer.clock.tick(time.delta()).just_finished()
JustFinished(t) == t.finished

\* The deltas an update is tried with: from none to the longest one, in
\* DeltaSteps equal steps.
Deltas == {k * (MaxDeltaNs \div DeltaSteps) : k \in 0..DeltaSteps}

----------------------------------------------------------------------------
(* Event queues: Events<E> is double buffered (a: the older buffer, b: the  *)
(* buffer being written); each queue has one reader, whose cursor is kept   *)
(* as the number of events it has not read yet in either buffer.            *)

NoEvents == [a |-> 0, b |-> 0]

\* The history of a frame: the GameOverEvents movement sent, whether the new
\* head cell was a cell of the pre-shift chain and whether it held food,
\* whether game_over reset the snake, the GrowthEvents eater sent, the
\* length of the chain when the frame began, and the food items whose spawn
\* was applied after game_over ran.
NewFrame == [raised |-> 0, collided |-> FALSE, on_food |-> FALSE,
             reset |-> FALSE, eaten |-> 0, len0 |-> 0, late |-> 0]

\* The history of the head's walk: no step yet, and the unit vector of a
\* direction on the arena's axes (x grows to the right, y grows upwards).
NoWalk == [x |-> 0, y |-> 0]

UnitStep(d) ==
    [x |-> IF d = "Right" THEN 1 ELSE IF d = "Left" THEN -1 ELSE 0,
     y |-> IF d = "Up" THEN 1 ELSE IF d = "Down" THEN -1 ELSE 0]

AddStep(w, d) == [x |-> w.x + UnitStep(d).x, y |-> w.y + UnitStep(d).y]

Send(q, n) == [q EXCEPT !.b = @ + n]

\* reader.read().next().is_some()
HasUnread(q) == q.a + q.b > 0

\* reader.read().next(): the cursor moves past one event, the oldest unread.
ReadNext(q) ==
    IF q.a > 0 THEN [q EXCEPT !.a = @ - 1]
    ELSE IF q.b > 0 THEN [q EXCEPT !.b = @ - 1]
    ELSE q

\* Events::update: the older buffer is dropped, the newer becomes the older.
EventsUpdate(q) == [a |-> q.b, b |-> 0]

----------------------------------------------------------------------------
(* Entities *)

\* A fresh entity id: the smallest id that is neither alive nor reserved.
NewEntity(used) ==
    CHOOSE e \in 1..(Cardinality(used) + 1) :
        /\ e \notin used
        /\ \A f \in 1..(e - 1) : f \in used

Alive == DOMAIN pos

\* heads.iter_mut().next(): the first head of the query.
FirstHead == CHOOSE h \in DOMAIN heads : \A g \in DOMAIN heads : h <= g

\* The cells of the arena: x = (random::<f32>() * WIDTH) as i32, y likewise.
ArenaCells == {Position(px, py) : px \in 0..(WIDTH - 1), py \in 0..(HEIGHT - 1)}

\* The order in which the cells of the arena are taken into the model: by
\* their distance from the start cell of the head, then by column, then by
\* row, counted from the start cell onwards.
CellRank(c) ==
    100 * ((IF c.x >= StartX THEN c.x - StartX ELSE StartX - c.x)
           + (IF c.y >= StartY THEN c.y - StartY ELSE StartY - c.y))
    + 10 * ((c.x - StartX + WIDTH) % WIDTH)
    + ((c.y - StartY + HEIGHT) % HEIGHT)

\* The cells food::spawn is tried on: the first MaxFoodCells cells of the
\* arena in that order (the code draws any cell of the arena at random).
FoodCells ==
    {c \in ArenaCells :
        Cardinality({d \in ArenaCells : CellRank(d) < CellRank(c)}) < MaxFoodCells}

NoFood == [c \in FoodCells |-> 0]

FoodAt(f, c) == IF c \in FoodCells THEN f[c] ELSE 0

\* The number of food items on the cells of the heads in hs (eater's two loops).
RECURSIVE FoodHits(_, _, _)
FoodHits(hs, f, p) ==
    IF hs = {} THEN 0
    ELSE LET h == CHOOSE x \in hs : TRUE IN
         FoodAt(f, p[h]) + FoodHits(hs \ {h}, f, p)

RECURSIVE FoodCount(_, _)
FoodCount(f, cells) ==
    IF cells = {} THEN 0
    ELSE LET c == CHOOSE x \in cells : TRUE IN
         f[c] + FoodCount(f, cells \ {c})

TotalFood == FoodCount(food, FoodCells)

----------------------------------------------------------------------------
(* spawn_snake: the canonical start configuration, built on the ids the     *)
(* command queue reserves while the entities in `used` are still alive.     *)
(* p, hs, ss are the components of the entities that stay alive.            *)

\* A spawn that forgets to push the first body segment on the chain.
spawn_snakeHeadOnly(p, hs, ss, used) ==
    LET head    == NewEntity(used)
        segment == NewEntity(used \cup {head})
    IN  [pos      |-> [e \in DOMAIN p \cup {head, segment} |->
                          IF e = head THEN Position(StartX, StartY)
                          ELSE IF e = segment THEN Position(StartX, StartY - 1)
                          ELSE p[e]],
         heads    |-> [e \in DOMAIN hs \cup {head} |->
                          IF e = head THEN "Up" ELSE hs[e]],
         segs     |-> ss \cup {segment},
         segments |-> <<head>>]

spawn_snake(p, hs, ss, used) ==
    LET head    == NewEntity(used)
        segment == NewEntity(used \cup {head})
    IN  [pos      |-> [e \in DOMAIN p \cup {head, segment} |->
                          IF e = head THEN Position(StartX, StartY)
                          ELSE IF e = segment THEN Position(StartX, StartY - 1)
                          ELSE p[e]],
         heads    |-> [e \in DOMAIN hs \cup {head} |->
                          IF e = head THEN "Up" ELSE hs[e]],
         segs     |-> ss \cup {segment},
         segments |-> <<head, segment>>]

----------------------------------------------------------------------------
(* movement *)

\* A snapshot that puts a default position in the place of an entry that
\* does not resolve, so that the length test never fails.
RECURSIVE SegmentPositionsDefault(_, _)
SegmentPositionsDefault(p, chain) ==
    IF chain = <<>> THEN <<>>
    ELSE <<IF Head(chain) \in DOMAIN p THEN p[Head(chain)] ELSE Position(0, 0)>>
         \o SegmentPositionsDefault(p, Tail(chain))

\* segments.iter().filter_map(|e| positions.get_mut(*e).ok().map(|p| *p)).collect()
RECURSIVE SegmentPositions(_, _)
SegmentPositions(p, chain) ==
    IF chain = <<>> THEN <<>>
    ELSE (IF Head(chain) \in DOMAIN p THEN <<p[Head(chain)]>> ELSE <<>>)
         \o SegmentPositions(p, Tail(chain))

\* A step of two cells, as if a clock overrun of one period were caught up.
NewHeadPosTwoCells(p, d) ==
    CASE d = "Left"  -> [p EXCEPT !.x = @ - 2]
      [] d = "Up"    -> [p EXCEPT !.y = @ + 2]
      [] d = "Right" -> [p EXCEPT !.x = @ + 2]
      [] d = "Down"  -> [p EXCEPT !.y = @ - 2]

\* The offsets with the vertical axis of a raster: Up decreases y.
NewHeadPosRaster(p, d) ==
    CASE d = "Left"  -> [p EXCEPT !.x = @ - 1]
      [] d = "Up"    -> [p EXCEPT !.y = @ - 1]
      [] d = "Right" -> [p EXCEPT !.x = @ + 1]
      [] d = "Down"  -> [p EXCEPT !.y = @ + 1]

\* The offsets with the horizontal axis mirrored: Left increases x.
NewHeadPosMirrored(p, d) ==
    CASE d = "Left"  -> [p EXCEPT !.x = @ + 1]
      [] d = "Up"    -> [p EXCEPT !.y = @ + 1]
      [] d = "Right" -> [p EXCEPT !.x = @ - 1]
      [] d = "Down"  -> [p EXCEPT !.y = @ - 1]

\* match &head.direction { Left => x -= 1, Up => y += 1, Right => x += 1, Down => y -= 1 }
NewHeadPos(p, d) ==
    CASE d = "Left"  -> [p EXCEPT !.x = @ - 1]
      [] d = "Up"    -> [p EXCEPT !.y = @ + 1]
      [] d = "Right" -> [p EXCEPT !.x = @ + 1]
      [] d = "Down"  -> [p EXCEPT !.y = @ - 1]

\* The bounds test without the lower bounds, as for unsigned coordinates.
OutOfArenaUpperOnly(p) == p.x >= WIDTH \/ p.y >= HEIGHT

\* The bounds test with > for >=: the cells x = WIDTH and y = HEIGHT pass.
OutOfArenaOffByOne(p) == p.x < 0 \/ p.y < 0 \/ p.x > WIDTH \/ p.y > HEIGHT

\* head_pos.x < 0 || head_pos.y < 0 || head_pos.x as f32 >= WIDTH || head_pos.y as f32 >= HEIGHT
OutOfArena(p) == p.x < 0 \/ p.y < 0 \/ p.x >= WIDTH \/ p.y >= HEIGHT

\* The collision test without the cell the tail is about to leave.
SelfCollisionSkipTail(head_pos, segment_positions) ==
    \E i \in 1..(Len(segment_positions) - 1) : segment_positions[i] = head_pos

\* segment_positions.contains(&head_pos)
SelfCollision(head_pos, segment_positions) == head_pos \in Range(segment_positions)

\* The shift reading the positions as already updated instead of the snapshot.
RECURSIVE ShiftBodyCascade(_, _, _, _)
ShiftBodyCascade(p, segment_positions, chain, i) ==
    IF i > Min(Len(segment_positions), Len(chain) - 1) THEN p
    ELSE ShiftBodyCascade(IF chain[i + 1] \in DOMAIN p /\ chain[i] \in DOMAIN p
                          THEN [p EXCEPT ![chain[i + 1]] = p[chain[i]]]
                          ELSE p,
                          segment_positions, chain, i + 1)

\* segment_positions.iter().zip(segments.iter().skip(1)).for_each(...): the
\* chain entry after index i takes the snapshot position of index i, in order.
RECURSIVE ShiftBody(_, _, _, _)
ShiftBody(p, segment_positions, chain, i) ==
    IF i > Min(Len(segment_positions), Len(chain) - 1) THEN p
    ELSE ShiftBody(IF chain[i + 1] \in DOMAIN p
                   THEN [p EXCEPT ![chain[i + 1]] = segment_positions[i]]
                   ELSE p,
                   segment_positions, chain, i + 1)

\* The tail position written once and then kept from the earlier tick.
NewLastTailKept(segment_positions, old) ==
    IF old = NoPos /\ segment_positions # <<>>
    THEN segment_positions[Len(segment_positions)]
    ELSE old

\* segment_positions.last() -> LastTailPosition(Some(..))
NewLastTail(segment_positions, old) ==
    IF segment_positions # <<>>
    THEN segment_positions[Len(segment_positions)]
    ELSE old

\* The body of movement once the clock has fired and a head exists.
MoveSnake ==
    LET head_entity       == FirstHead
        segment_positions == SegmentPositions(pos, segments)
    IN  IF Len(segment_positions) # Len(segments)
        THEN /\ UNCHANGED <<pos, last_tail_position, game_over_events, tail_reset,
                             walk>>
             /\ frame' = [frame EXCEPT !.raised = 0]
        ELSE LET has_pos  == head_entity \in DOMAIN pos
                 head_pos == NewHeadPos(pos[head_entity], heads[head_entity])
                 moved    == IF has_pos THEN [pos EXCEPT ![head_entity] = head_pos]
                             ELSE pos
                 sent     == IF has_pos
                             THEN (IF OutOfArena(head_pos) THEN 1 ELSE 0)
                                  + (IF SelfCollision(head_pos, segment_positions)
                                     THEN 1 ELSE 0)
                             ELSE 0
             IN  /\ pos' = ShiftBody(moved, segment_positions, segments, 1)
                 /\ game_over_events' = Send(game_over_events, sent)
                 /\ last_tail_position' =
                        NewLastTail(segment_positions, last_tail_position)
                 /\ frame' = [frame EXCEPT
                                 !.raised = sent,
                                 !.collided = has_pos /\ SelfCollision(head_pos,
                                                                      segment_positions),
                                 !.on_food = has_pos /\ FoodAt(food, head_pos) > 0]
                 /\ tail_reset' = IF segment_positions # <<>> THEN FALSE
                                  ELSE tail_reset
                 /\ walk' = IF has_pos THEN AddStep(walk, heads[head_entity])
                            ELSE walk

\* movement: gated by the clock; dt is time.delta() of this update.
movement(t, dt) ==
    /\ timer' = tick(t, dt)
    /\ IF JustFinished(timer') /\ DOMAIN heads # {}
       THEN MoveSnake
       ELSE /\ UNCHANGED <<pos, last_tail_position, game_over_events, tail_reset,
                            walk>>
            /\ frame' = [frame EXCEPT !.raised = 0]
    /\ UNCHANGED <<heads, segs, food, segments, input, growth_events, food_system>>

----------------------------------------------------------------------------
(* game_over, eater, grow *)

\* A reset that despawns the snake and leaves the food entities alone.
game_overKeepFood ==
    IF HasUnread(game_over_events)
    THEN LET gone  == DOMAIN heads \cup segs
             kept  == DOMAIN pos \ gone
             world == spawn_snake([e \in kept |-> pos[e]],
                                  [e \in {} |-> "Up"], {}, kept)
         IN  /\ game_over_events' = ReadNext(game_over_events)
             /\ food' = food
             /\ pos' = world.pos
             /\ heads' = world.heads
             /\ segs' = world.segs
             /\ segments' = world.segments
             /\ frame' = [frame EXCEPT !.reset = TRUE]
             /\ tail_reset' = (last_tail_position # NoPos)
             /\ walk' = NoWalk
    ELSE UNCHANGED <<game_over_events, food, pos, heads, segs, segments, frame,
                     tail_reset, walk>>

\* game_over: on an unread GameOverEvent every food, head and segment entity
\* is despawned and spawn_snake rebuilds the snake; the commands are applied
\* at the sync point before eater. An id stands for an entity slot: the slots
\* of the despawned entities are free again once the commands are applied, and
\* nothing keeps a reference to them (the chain resource is replaced).
game_over ==
    IF HasUnread(game_over_events)
    THEN LET gone  == DOMAIN heads \cup segs
             kept  == DOMAIN pos \ gone
             world == spawn_snake([e \in kept |-> pos[e]],
                                  [e \in {} |-> "Up"], {}, kept)
         IN  /\ game_over_events' = ReadNext(game_over_events)
             /\ food' = NoFood
             /\ pos' = world.pos
             /\ heads' = world.heads
             /\ segs' = world.segs
             /\ segments' = world.segments
             /\ frame' = [frame EXCEPT !.reset = TRUE]
             /\ tail_reset' = (last_tail_position # NoPos)
             /\ walk' = NoWalk
    ELSE UNCHANGED <<game_over_events, food, pos, heads, segs, segments, frame,
                     tail_reset, walk>>

\* eater: every food item on a head's cell is despawned and sends one
\* GrowthEvent.
eater ==
    LET eaters == {h \in DOMAIN heads : h \in DOMAIN pos} IN
    /\ growth_events' = Send(growth_events, FoodHits(eaters, food, pos))
    /\ frame' = [frame EXCEPT !.eaten = FoodHits(eaters, food, pos)]
    /\ food' = [c \in FoodCells |->
                   IF \E h \in eaters : pos[h] = c THEN 0 ELSE food[c]]

\* grow: on an unread GrowthEvent a segment is spawned at the last tail
\* position, if there is one, and pushed on the chain.
grow ==
    IF HasUnread(growth_events)
    THEN /\ growth_events' = ReadNext(growth_events)
         /\ IF last_tail_position # NoPos
            THEN LET segment == NewEntity(Alive) IN
                 /\ pos' = [e \in DOMAIN pos \cup {segment} |->
                               IF e = segment THEN last_tail_position ELSE pos[e]]
                 /\ segs' = segs \cup {segment}
                 /\ segments' = Append(segments, segment)
            ELSE UNCHANGED <<pos, segs, segments>>
    ELSE UNCHANGED <<growth_events, pos, segs, segments>>

----------------------------------------------------------------------------
(* The frame schedule of the running game *)

Startup ==
    spawn_snake([e \in {} |-> NoPos], [e \in {} |-> "Up"], {}, {})

Init ==
    /\ pc = "First"
    /\ pos = Startup.pos
    /\ heads = Startup.heads
    /\ segs = Startup.segs
    /\ segments = Startup.segments
    /\ food = NoFood
    /\ last_tail_position = NoPos
    /\ timer = Timer(PeriodNs)
    /\ food_timer = Timer(FoodPeriodNs)
    /\ delta = 0
    /\ food_ran = TRUE
    /\ updates = 0
    /\ input = {}
    /\ game_over_events = NoEvents
    /\ growth_events = NoEvents
    /\ frame = NewFrame
    /\ tail_reset = FALSE
    /\ walk = NoWalk

\* The updates that lead from the start of the game to the mid-game state.
MidGameUpdates == 31

\* A run is followed for MaxUpdates updates with a non-zero delta from the
\* start of the game, and for MaxMidGameUpdates from the mid-game state.
WithinHorizon ==
    \/ updates < MaxUpdates
    \/ updates >= MidGameUpdates /\ updates < MidGameUpdates + MaxMidGameUpdates

\* The First schedule, once every system of the last update has run: the Time
\* resource takes the delta of the new update; the event queues are updated
\* when a fixed update ran since the last frame (rotate), and are left alone
\* otherwise.
First ==
    /\ pc = "First"
    /\ \E rotate \in BOOLEAN :
          /\ game_over_events' =
                IF rotate THEN EventsUpdate(game_over_events) ELSE game_over_events
          /\ growth_events' =
                IF rotate THEN EventsUpdate(growth_events) ELSE growth_events
    /\ food_ran
    /\ food_ran' = FALSE
    /\ delta' \in Deltas
    /\ delta' # 0 => WithinHorizon
    /\ updates' = IF delta' # 0 THEN updates + 1 ELSE updates
    /\ frame' = [NewFrame EXCEPT !.len0 = Len(segments)]
    /\ pc' = "handle_input"
    /\ UNCHANGED <<pos, heads, segs, food, segments, last_tail_position, timer,
                   food_timer, input, tail_reset, walk>>

\* food::spawn: the food clock ticks by the delta of the update and, when it
\* has just finished, one food item is spawned on a cell drawn at random.
spawn ==
    /\ food_timer' = tick(food_timer, delta)
    /\ IF JustFinished(food_timer')
       THEN \E c \in FoodCells : food' = [food EXCEPT ![c] = @ + 1]
       ELSE food' = food

\* food::spawn is not ordered against the chain of the snake systems and runs
\* once in every update. Its spawn command is applied at the sync point that
\* follows it: the one between game_over and eater, or a later one, where the
\* systems of this update that look at food have already run.
FoodSpawn ==
    /\ pc \in {"First", "eater"}
    /\ ~food_ran
    /\ spawn
    /\ food_ran' = TRUE
    /\ frame' = IF pc = "eater" /\ food' # food
                THEN [frame EXCEPT !.late = @ + 1] ELSE frame
    /\ UNCHANGED <<pc, pos, heads, segs, segments, last_tail_position, timer,
                   delta, updates, input, game_over_events, growth_events,
                   tail_reset, walk>>

HandleInput ==
    /\ pc = "handle_input"
    /\ \E held \in FrameKeySets : handle_input(held)
    /\ pc' = "movement"
    /\ UNCHANGED <<pos, segs, food, segments, last_tail_position, timer, input,
                   game_over_events, growth_events, frame, tail_reset, walk,
                   food_system>>

Movement ==
    /\ pc = "movement"
    /\ movement(timer, delta)
    /\ pc' = "game_over"

GameOver ==
    /\ pc = "game_over"
    /\ game_over
    /\ pc' = "eater"
    /\ UNCHANGED <<last_tail_position, timer, input, growth_events, food_system>>

Eater ==
    /\ pc = "eater"
    /\ eater
    /\ pc' = "grow"
    /\ UNCHANGED <<pos, heads, segs, segments, last_tail_position, timer, input,
                   game_over_events, tail_reset, walk, food_system>>

Grow ==
    /\ pc = "grow"
    /\ grow
    /\ pc' = "First"
    /\ UNCHANGED <<heads, food, last_tail_position, timer, input, game_over_events,
                   frame, tail_reset, walk, food_system>>

Next ==
    \/ First
    \/ FoodSpawn
    \/ HandleInput
    \/ Movement
    \/ GameOver
    \/ Eater
    \/ Grow

Spec == Init /\ [][Next]_vars

----------------------------------------------------------------------------
(* The running game, taken up in the middle of a run. The mid-game state is *)
(* the one the game is in after MidGameUpdates updates of the longest delta *)
(* each, in which the head is steered with one key per turn along           *)
(*   Right x 6, Up x 6, Left x 6, Down x 3, Left x 3, Down x 2, Right x 4,  *)
(*   Down x 1                                                               *)
(* and food::spawn draws the cell (3,3) in updates 8 and 16 and the cell    *)
(* (3,4) in update 24: the head eats the item on (3,4) in update 29 and the *)
(* snake grows to three entries; the two items on (3,3) are still there.    *)

\* The clock t after n updates of the longest delta.
RECURSIVE TimerAfter(_, _)
TimerAfter(t, n) ==
    IF n = 0 THEN t ELSE tick(TimerAfter(t, n - 1), MaxDeltaNs)

MidGameInit ==
    /\ pc = "First"
    /\ pos = <<Position(4, 3), Position(4, 4), Position(3, 4)>>
    /\ heads = [e \in {1} |-> "Down"]
    /\ segs = {2, 3}
    /\ segments = <<1, 2, 3>>
    /\ food = [c \in FoodCells |-> IF c = Position(3, 3) THEN 2 ELSE 0]
    /\ last_tail_position = Position(2, 4)
    /\ timer = TimerAfter(Timer(PeriodNs), MidGameUpdates)
    /\ food_timer = TimerAfter(Timer(FoodPeriodNs), MidGameUpdates)
    /\ delta = MaxDeltaNs
    /\ food_ran = TRUE
    /\ updates = MidGameUpdates
    /\ input = {}
    /\ game_over_events = NoEvents
    /\ growth_events = NoEvents
    /\ frame = [NewFrame EXCEPT !.len0 = 3]
    /\ tail_reset = FALSE
    /\ walk = [x |-> 1, y |-> 0]

MidGameSpec == MidGameInit /\ [][Next]_vars

----------------------------------------------------------------------------
(* The test harness of snake.rs (mod tests): one head entity with a         *)
(* Position, an empty SnakeSegments resource, no game_over / eater / grow   *)
(* systems; handle_input and movement are called directly and the timer is  *)
(* forced to finish before every movement call.                             *)

TestInit ==
    /\ pc \in {"test_keys", "test_sequence"}
    /\ pos = [e \in {1} |-> Position(StartX, StartY)]
    /\ heads = [e \in {1} |-> "Up"]
    /\ segs = {}
    /\ segments = <<>>
    /\ food = NoFood
    /\ last_tail_position = NoPos
    /\ timer = Timer(IF pc = "test_keys" THEN PeriodNs ELSE TestPeriodNs)
    /\ food_timer = Timer(FoodPeriodNs)
    /\ delta = 0
    /\ food_ran = TRUE
    /\ updates = 0
    /\ input = {}
    /\ game_over_events = NoEvents
    /\ growth_events = NoEvents
    /\ frame = NewFrame
    /\ tail_reset = FALSE
    /\ walk = NoWalk

\* test_basic_movement_keys, one case: the head is put back on the start cell
\* with a direction (the test uses the default, Up) and the held keys are
\* inserted as the ButtonInput resource.
TestPressKeys ==
    /\ pc = "test_keys"
    /\ \E held \in KeySets, d \in Direction :
          /\ input' = held
          /\ heads' = [h \in DOMAIN heads |-> d]
    /\ pos' = [h \in DOMAIN pos |-> Position(StartX, StartY)]
    /\ walk' = NoWalk
    /\ pc' = "test_handle_input"
    /\ UNCHANGED <<segs, food, segments, last_tail_position, timer,
                   game_over_events, growth_events, frame, tail_reset, food_system>>

TestHandleInput ==
    /\ pc = "test_handle_input"
    /\ handle_input(input)
    /\ pc' = "test_keys_movement"
    /\ UNCHANGED <<pos, segs, food, segments, last_tail_position, timer, input,
                   game_over_events, growth_events, frame, tail_reset, walk,
                   food_system>>

\* test_snake_movement_sequence, one step: the direction is written directly.
\* The walk stops once the head has left the arena.
TestSetDirection ==
    /\ pc = "test_sequence"
    /\ \A h \in DOMAIN heads : ~OutOfArena(pos[h])
    /\ \E d \in Direction : heads' = [h \in DOMAIN heads |-> d]
    /\ pc' = "test_sequence_movement"
    /\ UNCHANGED <<pos, segs, food, segments, last_tail_position, timer, input,
                   game_over_events, growth_events, frame, tail_reset, walk,
                   food_system>>

\* timer.clock.set_elapsed(duration); movement(...): the Time resource of the
\* tests is never advanced, its delta is zero.
TestMovement ==
    /\ pc \in {"test_keys_movement", "test_sequence_movement"}
    /\ movement([timer EXCEPT !.elapsed = timer.duration], delta)
    /\ pc' = IF pc = "test_keys_movement" THEN "test_keys" ELSE "test_sequence"

TestNext ==
    \/ TestPressKeys
    \/ TestHandleInput
    \/ TestSetDirection
    \/ TestMovement

TestSpec == TestInit /\ [][TestNext]_vars

\* The game and the test harness together: every way the code calls movement.
GameAndTestsSpec == (Init \/ TestInit) /\ [][Next \/ TestNext]_vars

----------------------------------------------------------------------------
(* movement called on a world with a consistency fault: a snake of n chain  *)
(* entries laid out downwards from the start cell, of which the entities in *)
(* `missing` have no Position (a dangling reference in the chain resource). *)
(* The world is built directly, as the tests build theirs, and the timer is *)
(* forced to finish before the call.                                        *)

FaultInit ==
    /\ pc = "fault_setup"
    /\ pos = Startup.pos
    /\ heads = Startup.heads
    /\ segs = Startup.segs
    /\ segments = Startup.segments
    /\ food = NoFood
    /\ last_tail_position = NoPos
    /\ timer = Timer(PeriodNs)
    /\ food_timer = Timer(FoodPeriodNs)
    /\ delta = 0
    /\ food_ran = TRUE
    /\ updates = 0
    /\ input = {}
    /\ game_over_events = NoEvents
    /\ growth_events = NoEvents
    /\ frame = NewFrame
    /\ tail_reset = FALSE
    /\ walk = NoWalk

FaultSetup ==
    /\ pc \in {"fault_setup", "fault_done"}
    /\ \E n \in 2..MaxLen, d \in Direction, missing \in SUBSET (1..MaxLen),
          tail \in {NoPos, Position(StartX + 1, StartY)} :
          /\ missing \subseteq 1..n
          /\ pos' = [e \in (1..n) \ missing |-> Position(StartX, StartY - (e - 1))]
          /\ heads' = [e \in {1} |-> d]
          /\ segs' = 2..n
          /\ segments' = [i \in 1..n |-> i]
          /\ last_tail_position' = tail
    /\ game_over_events' = NoEvents
    /\ frame' = NewFrame
    /\ walk' = NoWalk
    /\ pc' = "fault_movement"
    /\ UNCHANGED <<food, timer, input, growth_events, tail_reset, food_system>>

FaultMovement ==
    /\ pc = "fault_movement"
    /\ movement([timer EXCEPT !.elapsed = timer.duration], delta)
    /\ pc' = "fault_done"

FaultNext ==
    \/ FaultSetup
    \/ FaultMovement

FaultSpec == FaultInit /\ [][FaultNext]_vars

----------------------------------------------------------------------------
(* Vocabulary of the properties *)

TheHead == CHOOSE h \in DOMAIN heads : TRUE

IsOpposite(a, b) == {a, b} \in {{"Left", "Right"}, {"Up", "Down"}}

\* One grid cell from p in direction d.
OneCell(p, d) ==
    [x |-> p.x + (IF d = "Left" THEN -1 ELSE IF d = "Right" THEN 1 ELSE 0),
     y |-> p.y + (IF d = "Down" THEN -1 ELSE IF d = "Up" THEN 1 ELSE 0)]

Manhattan(p, q) ==
    (IF p.x >= q.x THEN p.x - q.x ELSE q.x - p.x)
    + (IF p.y >= q.y THEN p.y - q.y ELSE q.y - p.y)

OutsideArena(p) == p.x \notin 0..(WIDTH - 1) \/ p.y \notin 0..(HEIGHT - 1)

\* The positions of the chain, head first (every entry resolves).
ChainPositions == [i \in 1..Len(segments) |-> pos[segments[i]]]

\* A call of movement in which the clock fires and the tick is not aborted.
Aborted == \E i \in DOMAIN segments : segments[i] \notin DOMAIN pos

FiredTick ==
    /\ pc \in {"movement", "test_keys_movement", "test_sequence_movement"}
    /\ pc' # pc
    /\ timer'.finished
    /\ DOMAIN heads # {}
    /\ ~Aborted

\* The GameOverEvents a step sends.
Raised == (game_over_events'.a + game_over_events'.b)
          - (game_over_events.a + game_over_events.b)

\* The new head cell of a fired tick lies on a cell of the pre-shift chain.
HitsSnapshot == \E i \in DOMAIN segments : pos[segments[i]] = pos'[TheHead]

\* The canonical start configuration of spawn_snake, and nothing else alive.
Canonical ==
    /\ Len(segments) = 2
    /\ segments[1] # segments[2]
    /\ DOMAIN pos = {segments[1], segments[2]}
    /\ pos[segments[1]] = Position(3, 3)
    /\ pos[segments[2]] = Position(3, 2)
    /\ DOMAIN heads = {segments[1]}
    /\ heads[segments[1]] = "Up"
    /\ segs = {segments[2]}

\* The direction of the first held key in the documented priority order
\* ArrowLeft, ArrowRight, ArrowDown, ArrowUp, A, D, S, W (held is not empty).
PriorityCandidate(held) ==
    IF "ArrowLeft" \in held THEN "Left"
    ELSE IF "ArrowRight" \in held THEN "Right"
    ELSE IF "ArrowDown" \in held THEN "Down"
    ELSE IF "ArrowUp" \in held THEN "Up"
    ELSE IF "KeyA" \in held THEN "Left"
    ELSE IF "KeyD" \in held THEN "Right"
    ELSE IF "KeyS" \in held THEN "Down"
    ELSE "Up"

\* The other physical key bound to the same logical direction.
Alias(key) ==
    CASE key = "ArrowLeft"  -> "KeyA"
      [] key = "KeyA"       -> "ArrowLeft"
      [] key = "ArrowRight" -> "KeyD"
      [] key = "KeyD"       -> "ArrowRight"
      [] key = "ArrowDown"  -> "KeyS"
      [] key = "KeyS"       -> "ArrowDown"
      [] key = "ArrowUp"    -> "KeyW"
      [] key = "KeyW"       -> "ArrowUp"

----------------------------------------------------------------------------
\* C1: opposite-direction suppression. In one handle_input pass, whenever the
\* candidate (the direction of the first held key in scan order) is the
\* opposite of the head's direction, the direction is unchanged; with
\* direction Up and a Down key the candidate, the tick that follows moves the
\* head from (3,3) to (3,4).
C1_OppositeSuppressed ==
    [][/\ (pc = "test_handle_input" /\ pc' = "test_keys_movement")
            => \A h \in DOMAIN heads :
                  (/\ FindPressed(input) # NoKey
                   /\ IsOpposite(KeyDirection(FindPressed(input), heads[h]), heads[h]))
                  => heads'[h] = heads[h]
       /\ (/\ pc = "test_keys_movement" /\ pc' = "test_keys"
           /\ FindPressed(input) \in {"ArrowDown", "KeyS"}
           /\ heads[TheHead] = "Up")
            => pos'[TheHead] = Position(3, 4)]_vars

C1_Witness ==
    /\ pc = "test_keys"
    /\ FindPressed(input) \in {"ArrowDown", "KeyS"}
    /\ heads[TheHead] = "Up"
    /\ pos[TheHead] = Position(3, 4)
    /\ timer.finished

\* C2: on every fired tick that is not aborted the head moves exactly one
\* cell in its current direction (Left x-1, Right x+1, Up y+1, Down y-1), in
\* the game and in the tests, where the chain resource is empty.
C2_HeadMovesOneCell ==
    [][FiredTick => pos'[TheHead] = OneCell(pos[TheHead], heads[TheHead])]_vars

C2_Witness ==
    /\ pc = "test_sequence"
    /\ segments = <<>>
    /\ timer.finished
    /\ heads[TheHead] = "Down"
    /\ pos[TheHead] = Position(4, 3)

\* C3: body-follow. After the movement of a fired tick every chain entry at
\* index i >= 2 (1-based) holds the position its predecessor held before the
\* tick.
C3_BodyFollows ==
    [][(FiredTick /\ pc = "movement")
         => /\ segments' = segments
            /\ \A i \in 2..Len(segments) :
                  pos'[segments[i]] = pos[segments[i - 1]]]_vars

C3_Witness ==
    /\ pc = "game_over"
    /\ timer.finished
    /\ Len(segments) = 3
    /\ ChainPositions = <<Position(3, 5), Position(3, 4), Position(3, 3)>>

\* C4: boundary game-over. On a fired tick a new head cell outside the arena
\* raises a game-over event in that tick, and a new head cell inside the
\* arena raises none for the boundary (only the one of a self-collision).
C4_BoundaryGameOver ==
    [][(FiredTick /\ pc = "movement")
         => /\ OutsideArena(pos'[TheHead]) => Raised >= 1
            /\ ~OutsideArena(pos'[TheHead])
                  => Raised = (IF HitsSnapshot THEN 1 ELSE 0)]_vars

C4_Witness ==
    /\ pc = "game_over"
    /\ timer.finished
    /\ pos[TheHead].y = HEIGHT
    /\ frame.raised = 1
    /\ HasUnread(game_over_events)

\* C5: self-collision game-over. On a fired tick a new head cell equal to any
\* position of the pre-shift chain (the tail's cell included) raises exactly
\* one game-over event, game_over then resets the snake to the canonical
\* start state and leaves no event unread; a new head cell on no snapshot
\* position raises none for self-collision.
C5_SelfCollisionGameOver ==
    [][/\ (FiredTick /\ pc = "movement")
            => /\ HitsSnapshot => Raised = 1
               /\ ~HitsSnapshot
                     => Raised = (IF OutsideArena(pos'[TheHead]) THEN 1 ELSE 0)
       /\ (pc = "game_over" /\ pc' = "eater" /\ HasUnread(game_over_events))
            => /\ Canonical'
               /\ ~HasUnread(game_over_events')]_vars

C5_Witness ==
    /\ pc = "game_over"
    /\ timer.finished
    /\ frame.raised = 1
    /\ ~OutsideArena(pos[TheHead])
    /\ last_tail_position = pos[TheHead]

\* C6: synchronous reset to the canonical state. At the end of every frame in
\* which movement raised a game-over, the snake is exactly the canonical start
\* configuration (head at (3,3), one segment at (3,2), direction Up, chain
\* length 2) and no other head or segment entity is alive.
C6_ResetFrameEndsCanonical ==
    (pc = "First" /\ frame.raised > 0) => Canonical

\* C7: pending data is discarded on reset. No segment is appended at a tail
\* position that was recorded before the last reset.
C7_NoSegmentAtOldTail ==
    [][(pc = "grow" /\ Len(segments') > Len(segments)) => ~tail_reset]_vars

\* C8: growth round-trip. The movement of a fired tick records the pre-shift
\* position of the last chain entry as the pending tail; nothing else of the
\* frame writes it or, without a reset, changes the chain; and when eater
\* queued a growth event in the frame of a fired tick without a game-over,
\* grow appends one segment at the end of the chain, on that pending tail.
C8_GrowthRoundTrip ==
    [][/\ (FiredTick /\ pc = "movement")
            => last_tail_position' = pos[segments[Len(segments)]]
       /\ (pc \in {"game_over", "eater", "grow"})
            => last_tail_position' = last_tail_position
       /\ (pc \in {"movement", "game_over", "eater"} /\ ~frame'.reset)
            => segments' = segments
       /\ (/\ pc = "grow" /\ pc' = "First"
           /\ timer.finished /\ ~frame.reset /\ frame.eaten >= 1)
            => /\ Len(segments') = Len(segments) + 1
               /\ SubSeq(segments', 1, Len(segments)) = segments
               /\ segments'[Len(segments')] \notin DOMAIN pos
               /\ pos'[segments'[Len(segments')]] = last_tail_position
               /\ \A e \in DOMAIN pos : pos'[e] = pos[e]]_vars

C8_Witness ==
    /\ pc = "First"
    /\ timer.finished
    /\ ~frame.reset
    /\ frame.eaten = 1
    /\ Len(segments) = 4
    /\ pos[TheHead] = Position(3, 4)
    /\ pos[segments[4]] = last_tail_position
    /\ \A i \in 1..3 : pos[segments[i]] # last_tail_position

\* C9: tick gating. In an update in which the movement clock does not fire,
\* no system changes the chain's positions, the chain, the pending tail or
\* the food on the arena.
C9_NoFireNoEffect ==
    [][(\/ (pc = "movement" /\ pc' = "game_over" /\ ~timer'.finished)
        \/ (pc \in {"game_over", "eater", "grow"} /\ pc' # pc /\ ~timer.finished))
         => /\ pos' = pos
            /\ segments' = segments
            /\ last_tail_position' = last_tail_position
            /\ food' = food]_vars

\* C10: non-accumulating clock. One call of movement moves the head by at most
\* one cell and shifts the body at most once; when the update carries two
\* periods or more the clock fires once: the head moves exactly one cell and
\* every chain entry takes the place of its predecessor.
C10_AtMostOneStepPerUpdate ==
    [][(pc = "movement" /\ pc' = "game_over")
         => /\ Manhattan(pos[TheHead], pos'[TheHead]) <= 1
            /\ \A i \in 2..Len(segments) :
                  pos'[segments[i]] \in {pos[segments[i]], pos[segments[i - 1]]}
            /\ timer'.times_finished_this_tick >= 2
                  => /\ timer'.finished
                     /\ Manhattan(pos[TheHead], pos'[TheHead]) = 1
                     /\ \A i \in 2..Len(segments) :
                           pos'[segments[i]] = pos[segments[i - 1]]]_vars

C10_Witness ==
    /\ pc = "game_over"
    /\ timer.times_finished_this_tick >= 2
    /\ Len(segments) = 3
    /\ ChainPositions = <<Position(3, 5), Position(3, 4), Position(3, 3)>>

\* C11: chain shape. At the end of every frame the chain has at least two
\* entries, exactly one head entity exists, and the first chain entry is that
\* head.
C11_ChainShape ==
    (pc = "First")
        => /\ Len(segments) >= 2
           /\ Cardinality(DOMAIN heads) = 1
           /\ segments[1] \in DOMAIN heads
           /\ DOMAIN heads \subseteq DOMAIN pos

C11_Witness ==
    /\ pc = "First"
    /\ frame.reset
    /\ frame.eaten = 1
    /\ Len(segments) = 3
    /\ segments[1] \in DOMAIN heads

\* C12: head trajectory. After any number of fired ticks the head stands on
\* the start cell (3,3) plus the vector sum of the unit steps in the
\* directions applied at the ticks since it was placed there (by the spawn,
\* by a reset, or by a test), whatever the directions and the inputs were.
C12_HeadTrajectory ==
    \A h \in DOMAIN heads :
        /\ h \in DOMAIN pos
        /\ pos[h] = Position(3 + walk.x, 3 + walk.y)

C12_Witness ==
    /\ pc = "test_sequence"
    /\ timer.finished
    /\ heads[TheHead] = "Left"
    /\ walk = [x |-> 1, y |-> 2]
    /\ pos[TheHead] = Position(4, 5)

\* C13: every food hit is consumed and grows the snake. When eater runs with
\* k food items on the head's cell, all k are removed and k growth events are
\* queued; the growth application of that frame then appends one segment per
\* growth event queued in the frame, each at the pending tail position.
C13_EveryHitGrows ==
    [][/\ (pc = "eater" /\ pc' = "grow")
            => /\ FoodAt(food', pos[TheHead]) = 0
               /\ TotalFood' = TotalFood - FoodAt(food, pos[TheHead])
               /\ frame'.eaten = FoodAt(food, pos[TheHead])
               /\ growth_events'.b = growth_events.b + FoodAt(food, pos[TheHead])
       /\ (pc = "grow" /\ pc' = "First")
            => /\ Len(segments') >= Len(segments) + frame.eaten
               /\ \A i \in (Len(segments) + 1)..Len(segments') :
                     pos'[segments'[i]] = last_tail_position]_vars

\* C14: game-over precedes growth. In a tick whose new head cell is a cell of
\* the pre-shift chain and holds food, game_over resets the snake and removes
\* the food before eater and grow run, and the frame ends with the canonical
\* chain of length 2: the growth of that tick is discarded.
C14_GameOverBeforeGrowth ==
    [][/\ (pc = "game_over" /\ pc' = "eater" /\ frame.collided /\ frame.on_food)
            => /\ Canonical'
               /\ food' = NoFood
               /\ growth_events' = growth_events
       /\ (pc = "grow" /\ pc' = "First" /\ frame.collided /\ frame.on_food)
            => Canonical']_vars

\* C15: no reversal. No fired tick moves the head onto the cell held by the
\* second chain entry, the cell the head came from: whatever input passes ran
\* between two fires, the head never steps back against its previous move.
C15_NoReversal ==
    [][(FiredTick /\ pc = "movement" /\ Len(segments) >= 2)
         => pos'[TheHead] # pos[segments[2]]]_vars

\* C16: input priority. In one handle_input pass only the first held key in
\* the order ArrowLeft, ArrowRight, ArrowDown, ArrowUp, A, D, S, W gives the
\* candidate: the direction becomes the candidate, or stays as it was when the
\* candidate is the opposite direction (no other held key is tried) or when no
\* key is held.
C16_InputPriority ==
    [][(pc = "test_handle_input" /\ pc' = "test_keys_movement")
         => \A h \in DOMAIN heads :
               heads'[h] =
                  IF input = {} THEN heads[h]
                  ELSE IF IsOpposite(PriorityCandidate(input), heads[h])
                       THEN heads[h]
                       ELSE PriorityCandidate(input)]_vars

C16_Witness ==
    /\ pc = "test_keys_movement"
    /\ input = {"ArrowLeft", "ArrowUp"}
    /\ heads[TheHead] = "Right"

\* C17: the chain length changes only by growth or reset. Only grow and
\* game_over change the chain; grow adds exactly one segment and only on a
\* queued growth event; a reset makes the length 2; and over a whole frame the
\* length stays the same, is one more, or has become 2 by a reset.
C17_LengthByGrowthOrReset ==
    [][/\ (pc \notin {"grow", "game_over"}) => segments' = segments
       /\ (pc = "game_over" /\ segments' # segments) => Len(segments') = 2
       /\ (pc = "grow" /\ segments' # segments)
            => /\ HasUnread(growth_events)
               /\ Len(segments') = Len(segments) + 1
       /\ (pc = "grow" /\ pc' = "First")
            => \/ Len(segments') \in {frame.len0, frame.len0 + 1}
               \/ (frame.reset /\ Len(segments') = 2)]_vars

\* C18: consistency-fault abort. On a fired tick, when some chain entry does
\* not resolve to a position, movement changes nothing: every position, the
\* pending tail, the chain and the directions are as before and no game-over
\* is raised.
C18_FaultAborts ==
    [][(pc = "fault_movement" /\ pc' = "fault_done" /\ Aborted)
         => /\ timer'.finished
            /\ pos' = pos
            /\ last_tail_position' = last_tail_position
            /\ segments' = segments
            /\ heads' = heads
            /\ game_over_events' = game_over_events]_vars

C18_Witness ==
    /\ pc = "fault_done"
    /\ timer.finished
    /\ Len(segments) = 3
    /\ DOMAIN pos = {1, 2}
    /\ heads[1] = "Left"
    /\ pos[1] = Position(3, 3)
    /\ last_tail_position = NoPos

\* C19: the aliases of a direction are interchangeable. For every current
\* direction and every set of held keys, the direction a handle_input pass
\* yields is the one it yields when any held key is replaced by the other key
\* of the same logical direction.
C19_AliasesInterchangeable ==
    [][(pc = "test_handle_input" /\ pc' = "test_keys_movement")
         => \A h \in DOMAIN heads : \A k \in input :
               heads'[h] = NewDirection(heads[h], (input \ {k}) \cup {Alias(k)})]_vars

\* C20: in bounds at frame end. Every chain entry resolves to a position, and
\* the only position ever outside the arena is that of the head between the
\* movement that raised the game-over and the game_over that resets it; at the
\* end of every frame the head and all segments, grown ones included, are on
\* cells with 0 <= x < 10 and 0 <= y < 10.
C20_InBoundsAtFrameEnd ==
    /\ \A i \in DOMAIN segments : segments[i] \in DOMAIN pos
    /\ \A e \in DOMAIN pos :
          (pos[e].x \notin 0..9 \/ pos[e].y \notin 0..9)
             => /\ pc = "game_over"
                /\ e = segments[1]
                /\ frame.raised >= 1
                /\ HasUnread(game_over_events)

C20_Witness ==
    /\ pc = "First"
    /\ frame.raised = 1
    /\ ~frame.collided
    /\ frame.reset
    /\ frame.eaten = 1
    /\ Len(segments) = 3
    /\ \A i \in DOMAIN segments : ~OutsideArena(pos[segments[i]])

\* C21: chain contiguity. At the end of every frame any two consecutive chain
\* entries are on orthogonally adjacent cells (Manhattan distance exactly 1):
\* no two consecutive entries share a cell and no segment is detached.
C21_ChainContiguous ==
    (pc = "First")
        => \A i \in 2..Len(segments) :
              Manhattan(pos[segments[i - 1]], pos[segments[i]]) = 1

\* C22, as claimed: game-over clears the food. game_over removes every food
\* item that exists when it runs, together with the snake, and the frame that
\* performs a reset ends with no food on the arena and queues no growth.
C22_ResetFrameEndsWithoutFood ==
    [][/\ (pc = "game_over" /\ pc' = "eater" /\ HasUnread(game_over_events))
            => /\ food' = NoFood
               /\ Canonical'
       /\ (pc = "grow" /\ pc' = "First" /\ frame.reset)
            => /\ TotalFood' = 0
               /\ frame.eaten = 0]_vars

\* C22, amended: game_over removes every food item that exists when it runs,
\* together with the snake; the food on the arena at the end of the frame
\* that performs a reset and the growth that frame queues come only from the
\* items whose spawn was applied after game_over ran in that frame (none of
\* them: no food and no growth).
C22_ResetClearsExistingFood ==
    [][/\ (pc = "game_over" /\ pc' = "eater" /\ HasUnread(game_over_events))
            => /\ food' = NoFood
               /\ Canonical'
       /\ (pc = "grow" /\ pc' = "First" /\ frame.reset)
            => TotalFood' + frame.eaten = frame.late]_vars

C22_Witness ==
    /\ pc = "First"
    /\ frame.reset
    /\ frame.late = 1
    /\ frame.eaten = 1
    /\ TotalFood = 0

====
